---- MODULE Spec2Model ----
(***************************************************************************)
(* Community coordination core of rork-underdust-community-roadmap:        *)
(* ConsciousnessPersistence, DiscordCommunityInput, CommunityCoordination  *)
(* and the CommunityCoordinationSystem facade (src/unnamed/part_005).      *)
(*                                                                         *)
(* Time is Date.now() in milliseconds, counted from the construction of    *)
(* the system.  Operations are synchronous and atomic (single-threaded JS);*)
(* the only asynchronous continuations are those of loadState/saveState.   *)
(***************************************************************************)
EXTENDS Integers, Sequences, FiniteSets, TLC

VARIABLES
    now,            \* Date.now()
    inputs,         \* DiscordCommunityInput.inputs
    channels,       \* DiscordCommunityInput.channels: channelId -> channel.inputs
    polls,          \* DiscordCommunityInput.polls: Map pollId -> Poll
    events,         \* CommunityCoordination.events
    consensusItems, \* CommunityCoordination.consensusItems
    currentState,   \* ConsciousnessPersistence.currentState
    storage,        \* AsyncStorage item 'consciousness_state'
    loadPending,    \* the getItem of loadState has not settled yet
    pendingWrites,  \* setItem calls of saveState that have not settled yet
    listeners,      \* ConsciousnessPersistence.listeners
    received,       \* per listener: the states it was invoked with
    handles,        \* per listener: unsubscribe handles returned and not yet called
    saveCount,      \* history: the number of saveState calls made
    lastAccepted,   \* history: pollId -> userId -> option of the last accepted vote
    lastRsvp,       \* history: event index -> memberId -> status of the last rsvp
    lastCall        \* history: the most recent call, its arguments and its outcome

vars == <<now, inputs, channels, polls, events, consensusItems, currentState,
          storage, loadPending, pendingWrites, listeners, received, handles,
          saveCount, lastAccepted, lastRsvp, lastCall>>

ledgerVars == <<inputs, channels>>
coordVars == <<events, consensusItems, lastRsvp>>
storeVars == <<currentState, storage, loadPending, pendingWrites, listeners, received,
               handles, saveCount>>

----------------------------------------------------------------------------
(* Bounds of the model *)

MaxTicks == 1        \* clock advances, of one week each
MaxInputs == 2       \* inputs added after construction
MaxPolls == 1        \* polls created after construction
MaxOptionIndex == 2  \* largest optionIndex / limit argument tried
MaxEvents == 1       \* events scheduled after construction
MaxItems == 1        \* consensus items created after construction
MaxSaves == 2        \* saveState calls
MaxLimit == 3        \* largest explicit limit argument tried
MaxHandles == 2      \* unsubscribe handles held per listener

(* Program constants *)

DayMs == 86400000
DefaultPollDuration == 86400000
DemoPollDays == 7
DefaultEventDuration == 3600000
DefaultVotingPeriod == 604800000
DemoVotingDays == 5
DefaultLimit == 50
DefaultThresholdPct == 67   \* 0.67; thresholds are kept in hundredths

None == "none"       \* undefined / no entry, where the other values are strings
NullTime == 0 - 1    \* null, where the other values are timestamps
NullObject == [null |-> TRUE]  \* null, where the other values are objects
NoOption == 0 - 1    \* no entry, where the other values are option indexes
NoItem == <<>>       \* AsyncStorage holds nothing under the key

Users == {"u1", "u2"}
KnownChannels == {"sanctuary", "tower-of-code", "temple-of-flame", "the-keep"}
ChannelArgs == {"sanctuary", "unknown-channel"}

----------------------------------------------------------------------------
(* Generic helpers *)

Min(a, b) == IF a < b THEN a ELSE b
Max(a, b) == IF a > b THEN a ELSE b

RECURSIVE SumSeq(_)
SumSeq(s) == IF s = <<>> THEN 0 ELSE Head(s) + SumSeq(Tail(s))

\* Array.prototype.indexOf: 1-based position of the first x in s, 0 when absent
IndexOf(s, x) ==
    IF \E i \in 1..Len(s) : s[i] = x
    THEN CHOOSE i \in 1..Len(s) : s[i] = x /\ \A j \in 1..(i - 1) : s[j] # x
    ELSE 0

\* Array.prototype.splice(i, 1) for a 1-based position i
RemoveAt(s, i) == SubSeq(s, 1, i - 1) \o SubSeq(s, i + 1, Len(s))

\* Array.prototype.reverse
Reverse(s) == [i \in 1..Len(s) |-> s[Len(s) + 1 - i]]

\* Array.prototype.slice(start) with one (integer) argument: a negative start
\* counts from the end, and -0 is 0
SliceFrom(s, start) ==
    LET k == IF start < 0 THEN Max(Len(s) + start, 0) ELSE Min(start, Len(s))
    IN  SubSeq(s, k + 1, Len(s))

\* a || dflt for a string-or-undefined field of a partial object
OrDefault(obj, key, dflt) ==
    IF key \in DOMAIN obj /\ obj[key] # "" /\ obj[key] # None THEN obj[key] ELSE dflt

\* a || dflt for a number-or-undefined argument (0 and undefined are both falsy)
NumOrDefault(n, dflt) == IF n = 0 THEN dflt ELSE n

----------------------------------------------------------------------------
(* DiscordCommunityInput *)

\* the input object built by addInput; the random suffix of the id is a value
\* not used before, here the position of the input in the global list
NewInput(channelId, input) ==
    [ id        |-> <<"input", now, Len(inputs) + 1>>,
      channelId |-> channelId,
      content   |-> OrDefault(input, "content", ""),
      author    |-> OrDefault(input, "author", "Anonymous"),
      timestamp |-> now,
      type      |-> OrDefault(input, "type", "message"),
      reactions |-> <<>>,
      responses |-> <<>> ]

\* the two lists after addInput(channelId, input) on lists ins, chans
AddInputBuggyAllChannels(ins, chans, channelId, input) ==
    <<Append(ins, NewInput(channelId, input)),
      [c \in DOMAIN chans |-> Append(chans[c], NewInput(channelId, input))]>>

\* an addInput that puts the new input in front (unshift)
AddInputPrepending(ins, chans, channelId, input) ==
    <<<<NewInput(channelId, input)>> \o ins,
      IF channelId \in DOMAIN chans
      THEN [chans EXCEPT ![channelId] = <<NewInput(channelId, input)>> \o @]
      ELSE chans>>

AddInputEffect(ins, chans, channelId, input) ==
    <<Append(ins, NewInput(channelId, input)),
      IF channelId \in DOMAIN chans
      THEN [chans EXCEPT ![channelId] = Append(@, NewInput(channelId, input))]
      ELSE chans>>

GetChannelInputs(chans, channelId, limit) ==
    IF channelId \in DOMAIN chans
    THEN Reverse(SliceFrom(chans[channelId], 0 - limit))
    ELSE <<>>

\* a poll that takes the duration as given
NewPollNoDefault(channelId, pollData) ==
    [ id        |-> <<"poll", now>>,
      channelId |-> channelId,
      question  |-> pollData.question,
      options   |-> [i \in 1..Len(pollData.options) |->
                        [text |-> pollData.options[i], votes |-> 0, voters |-> <<>>]],
      createdBy |-> pollData.author,
      createdAt |-> now,
      endsAt    |-> now + pollData.duration,
      active    |-> TRUE ]

NewPoll(channelId, pollData) ==
    [ id        |-> <<"poll", now>>,
      channelId |-> channelId,
      question  |-> pollData.question,
      options   |-> [i \in 1..Len(pollData.options) |->
                        [text |-> pollData.options[i], votes |-> 0, voters |-> <<>>]],
      createdBy |-> pollData.author,
      createdAt |-> now,
      endsAt    |-> now + NumOrDefault(pollData.duration, DefaultPollDuration),
      active    |-> TRUE ]

\* "Remove previous vote if exists" for one option
RemoveVoteNot(option, userId) == option

\* a removal that leaves the count as it is
RemoveVoteKeepCount(option, userId) ==
    IF IndexOf(option.voters, userId) # 0
    THEN [option EXCEPT !.voters = RemoveAt(@, IndexOf(option.voters, userId))]
    ELSE option

RemoveVote(option, userId) ==
    IF IndexOf(option.voters, userId) # 0
    THEN [option EXCEPT !.voters = RemoveAt(@, IndexOf(option.voters, userId)),
                        !.votes = @ - 1]
    ELSE option

\* a guard that also closes a poll at its endsAt
VoteOnPollRejectsEnded(pollId, optionIndex) ==
    \/ pollId \notin DOMAIN polls
    \/ ~polls[pollId].active
    \/ polls[pollId].endsAt <= now
    \/ optionIndex >= Len(polls[pollId].options)

\* the guard of voteOnPoll; optionIndex is 0-based as in the source
VoteOnPollRejects(pollId, optionIndex) ==
    \/ pollId \notin DOMAIN polls
    \/ ~polls[pollId].active
    \/ optionIndex >= Len(polls[pollId].options)

\* poll.options[optionIndex] is undefined: reading .voters of it throws TypeError
VoteOnPollThrows(pollId, optionIndex) ==
    /\ ~VoteOnPollRejects(pollId, optionIndex)
    /\ optionIndex < 0


\* the options of a poll after an accepted or a throwing voteOnPoll:
\* the forEach removal, then the push and the increment on the target option
MoveVote(options, optionIndex, userId) ==
    LET removed == [i \in 1..Len(options) |-> RemoveVote(options[i], userId)]
    IN  [i \in 1..Len(removed) |->
            IF i = optionIndex + 1
            THEN [removed[i] EXCEPT !.voters = Append(@, userId), !.votes = @ + 1]
            ELSE removed[i]]

\* getActivePolls: the ids of the polls it returns
GetActivePolls == {id \in DOMAIN polls : polls[id].active /\ polls[id].endsAt > now}

----------------------------------------------------------------------------
(* ConsciousnessPersistence: data *)

\* {...b, ...a}: the left operand wins
SpreadKeepLeft(a, b) ==
    [k \in (DOMAIN a) \cup (DOMAIN b) |-> IF k \in DOMAIN a THEN a[k] ELSE b[k]]

\* {...a, ...b}
Spread(a, b) ==
    [k \in (DOMAIN a) \cup (DOMAIN b) |-> IF k \in DOMAIN b THEN b[k] ELSE a[k]]

\* getDefaultState at construction time t
GetDefaultState(t) ==
    [ userId       |-> <<"user", t>>,
      currentPhase |-> "seed",
      lastActive   |-> t,
      spiral       |-> [depth |-> 0, direction |-> "clockwise", resonancePct |-> 50],
      community    |-> [participationLevel |-> "observer", contributionCount |-> 0,
                        lastContribution |-> NullTime],
      preferences  |-> [notifications |-> TRUE, autoSync |-> TRUE, platform |-> "ios"] ]

\* a record persisted by an earlier session of the app
EarlierState ==
    [ userId       |-> <<"user", 0 - DayMs>>,
      currentPhase |-> "bloom",
      lastActive   |-> 0 - DayMs,
      spiral       |-> [depth |-> 1, direction |-> "clockwise", resonancePct |-> 50],
      community    |-> [participationLevel |-> "contributor", contributionCount |-> 3,
                        lastContribution |-> 0 - DayMs],
      preferences  |-> [notifications |-> TRUE, autoSync |-> TRUE, platform |-> "ios"] ]

\* JSON.stringify / JSON.parse of a record of numbers, strings, booleans and null
JsonStringify(state) == <<"json", state>>
JsonParse(text) == text[2]

----------------------------------------------------------------------------
(* The state after new CommunityCoordinationSystem(): the three components *)
(* constructed and setupDemoData run, all at time 0                        *)

DemoInputs ==
    << [id |-> <<"input", 0, 1>>, channelId |-> "sanctuary", content |-> "Welcome",
        author |-> "Alice", timestamp |-> 0, type |-> "message",
        reactions |-> <<>>, responses |-> <<>>],
       [id |-> <<"input", 0, 2>>, channelId |-> "tower-of-code", content |-> "Working",
        author |-> "Bob", timestamp |-> 0, type |-> "message",
        reactions |-> <<>>, responses |-> <<>>],
       [id |-> <<"input", 0, 3>>, channelId |-> "the-keep", content |-> "Poll: focus",
        author |-> "Charlie", timestamp |-> 0, type |-> "poll",
        reactions |-> <<>>, responses |-> <<>>] >>

DemoPoll ==
    [ id        |-> <<"poll", 0>>,
      channelId |-> "the-keep",
      question  |-> "focus",
      options   |-> [i \in 1..4 |->
                        [text |-> <<"Meditation", "Technology", "Growth", "Governance">>[i],
                         votes |-> 0, voters |-> <<>>]],
      createdBy |-> "Charlie",
      createdAt |-> 0,
      endsAt    |-> DayMs * DemoPollDays,
      active    |-> TRUE ]

----------------------------------------------------------------------------
(* CommunityCoordination *)

Members == {"m1", "m2"}
RsvpStatuses == {"attending", "maybe", "declined"}
VoteKinds == {"support", "oppose", "abstain"}

NewEvent(eventData) ==
    [ id           |-> <<"event", now>>,
      title        |-> eventData.title,
      description  |-> eventData.description,
      scheduledFor |-> eventData.scheduledFor,
      duration     |-> NumOrDefault(eventData.duration, DefaultEventDuration),
      organizer    |-> eventData.organizer,
      attendees    |-> <<>>,
      type         |-> OrDefault(eventData, "type", "general"),
      location     |-> OrDefault(eventData, "location", "virtual"),
      createdAt    |-> now ]

\* a lookup that falls back on the first element
FindByIdOrFirst(list, id) ==
    IF \E i \in 1..Len(list) : list[i].id = id
    THEN CHOOSE i \in 1..Len(list) : list[i].id = id /\ \A j \in 1..(i - 1) : list[j].id # id
    ELSE 1

\* Array.prototype.find on the id: the 1-based position of the first match, 0 if none
FindById(list, id) ==
    IF \E i \in 1..Len(list) : list[i].id = id
    THEN CHOOSE i \in 1..Len(list) : list[i].id = id /\ \A j \in 1..(i - 1) : list[j].id # id
    ELSE 0

\* event.attendees after the filter and the push of rsvpToEvent
RsvpMerge(attendees, memberId, status) ==
    Append(attendees, [memberId |-> memberId, status |-> status, rsvpAt |-> now])

RsvpReplace(attendees, memberId, status) ==
    LET Other(a) == a.memberId # memberId
    IN  Append(SelectSeq(attendees, Other),
               [memberId |-> memberId, status |-> status, rsvpAt |-> now])

NewConsensusItem(itemData) ==
    [ id          |-> <<"consensus", now>>,
      title       |-> itemData.title,
      description |-> itemData.description,
      proposedBy  |-> itemData.proposedBy,
      createdAt   |-> now,
      votingEnds  |-> now + NumOrDefault(itemData.votingPeriod, DefaultVotingPeriod),
      votes       |-> [support |-> <<>>, oppose |-> <<>>, abstain |-> <<>>],
      status      |-> "voting",
      consensusThreshold |-> NumOrDefault(itemData.consensusThresholdPct, DefaultThresholdPct) ]

\* findIndex on memberId, 1-based, 0 if none
FindMember(voteArray, memberId) ==
    IF \E i \in 1..Len(voteArray) : voteArray[i].memberId = memberId
    THEN CHOOSE i \in 1..Len(voteArray) :
            /\ voteArray[i].memberId = memberId
            /\ \A j \in 1..(i - 1) : voteArray[j].memberId # memberId
    ELSE 0

\* "Remove previous vote" on one of the three arrays
RemoveBallot(voteArray, memberId) ==
    IF FindMember(voteArray, memberId) # 0
    THEN RemoveAt(voteArray, FindMember(voteArray, memberId))
    ELSE voteArray

\* item.votes after the removal and the push of voteOnConsensus
CastBallotNoRemoval(votes, memberId, vote) ==
    IF vote \in DOMAIN votes
    THEN [votes EXCEPT ![vote] = Append(@, [memberId |-> memberId, timestamp |-> now])]
    ELSE votes

CastBallot(votes, memberId, vote) ==
    LET removed == [k \in DOMAIN votes |-> RemoveBallot(votes[k], memberId)]
    IN  IF vote \in DOMAIN removed
        THEN [removed EXCEPT ![vote] = Append(@, [memberId |-> memberId, timestamp |-> now])]
        ELSE removed

TotalVotes(votes) == Len(votes.support) + Len(votes.oppose) + Len(votes.abstain)

\* supportVotes / totalVotes >= consensusThreshold, for totalVotes > 0
RatioReached(votes, thresholdPct) == Len(votes.support) * 100 >= thresholdPct * TotalVotes(votes)

\* the status checkConsensus leaves on an item with these votes
CheckConsensusDeadlineFirst(item, votes) ==
    IF TotalVotes(votes) > 0
    THEN IF now > item.votingEnds THEN "failed"
         ELSE IF RatioReached(votes, item.consensusThreshold) THEN "approved"
         ELSE item.status
    ELSE item.status

\* a resolution that asks for more than the threshold
CheckConsensusStrict(item, votes) ==
    IF TotalVotes(votes) > 0
    THEN IF Len(votes.support) * 100 > item.consensusThreshold * TotalVotes(votes)
         THEN "approved"
         ELSE IF now > item.votingEnds THEN "failed"
         ELSE item.status
    ELSE item.status

CheckConsensus(item, votes) ==
    IF TotalVotes(votes) > 0
    THEN IF RatioReached(votes, item.consensusThreshold) THEN "approved"
         ELSE IF now > item.votingEnds THEN "failed"
         ELSE item.status
    ELSE item.status

\* getActiveConsensusItems: the positions of the items it returns
GetActiveConsensusItems == {i \in 1..Len(consensusItems) : consensusItems[i].status = "voting"}

DemoEvent ==
    [ id           |-> <<"event", 0>>,
      title        |-> "Weekly Spiral Session",
      description  |-> "meditation",
      scheduledFor |-> DayMs,
      duration     |-> DefaultEventDuration,
      organizer    |-> "Dana",
      attendees    |-> <<>>,
      type         |-> "meditation",
      location     |-> "virtual",
      createdAt    |-> 0 ]

DemoConsensusItem ==
    [ id          |-> <<"consensus", 0>>,
      title       |-> "Community Guidelines v2.0",
      description |-> "guidelines",
      proposedBy  |-> "Eve",
      createdAt   |-> 0,
      votingEnds  |-> DayMs * DemoVotingDays,
      votes       |-> [support |-> <<>>, oppose |-> <<>>, abstain |-> <<>>],
      status      |-> "voting",
      consensusThreshold |-> DefaultThresholdPct ]

----------------------------------------------------------------------------
(* ConsciousnessPersistence: operations *)

Listeners == {"l1", "l2"}

\* exportState
ExportState == Spread(currentState, [exportedAt |-> now, version |-> "1.0"])

\* importState accepts the object
ImportAnyVersion(importedState) == "version" \in DOMAIN importedState

ImportStateAccepts(importedState) ==
    "version" \in DOMAIN importedState /\ importedState.version = "1.0"

\* importFromSync hands the object to importState
ImportFromSyncDelegates(syncData) ==
    "consciousness" \in DOMAIN syncData /\ syncData.consciousness # NullObject

\* notifyListeners: every registered listener is invoked with state
NotifyListeners(state) ==
    [l \in Listeners |-> IF l \in listeners THEN Append(received[l], state) ELSE received[l]]

----------------------------------------------------------------------------
InitSystem ==
    /\ now = 0
    /\ inputs = DemoInputs
    /\ channels = [c \in KnownChannels |->
                      LET In(x) == x.channelId = c IN SelectSeq(DemoInputs, In)]
    /\ polls = [id \in {DemoPoll.id} |-> DemoPoll]
    /\ events = <<DemoEvent>>
    /\ consensusItems = <<DemoConsensusItem>>
    /\ currentState = GetDefaultState(0)
    /\ storage \in {NoItem, JsonStringify(EarlierState)}
    /\ loadPending = TRUE
    /\ pendingWrites = <<>>
    /\ listeners = {}
    /\ received = [l \in Listeners |-> <<>>]
    /\ handles = [l \in Listeners |-> 0]
    /\ saveCount = 0
    /\ lastAccepted = [id \in {DemoPoll.id} |-> [u \in Users |-> NoOption]]
    /\ lastRsvp = <<[m \in Members |-> None]>>
    /\ lastCall = [op |-> "constructor"]

\* the in-memory components alone: nothing was persisted by an earlier session
Init == InitSystem /\ storage = NoItem

\* time passes between two calls: a week, which is past the end of the demo
\* consensus item and at the end of the demo poll
WeekMs == 7 * DayMs
HourMs == DayMs \div 24

\* a clock with a background sweep that fails the items whose voting has ended
TickWithSweep ==
    /\ now < MaxTicks * WeekMs
    /\ now' = now + WeekMs
    /\ consensusItems' =
          [i \in 1..Len(consensusItems) |->
              IF consensusItems[i].status = "voting" /\ now + WeekMs > consensusItems[i].votingEnds
              THEN [consensusItems[i] EXCEPT !.status = "failed"]
              ELSE consensusItems[i]]
    /\ lastCall' = [op |-> "tick"]
    /\ UNCHANGED <<ledgerVars, polls, lastAccepted, events, lastRsvp, storeVars>>

Tick ==
    /\ now < MaxTicks * WeekMs
    /\ now' = now + WeekMs
    /\ lastCall' = [op |-> "tick"]
    /\ UNCHANGED <<ledgerVars, polls, lastAccepted, coordVars, storeVars>>

----------------------------------------------------------------------------
(* DiscordCommunityInput: calls *)

InputArgs == {[content |-> "hi", author |-> "u1"], [content |-> "yo", type |-> "discussion"]}
PollDataArgs ==
    {[question |-> "q1", options |-> <<"A", "B">>, author |-> "u1", duration |-> d] :
        d \in {0, HourMs}}
UnknownPollId == <<"poll", 0 - 1>>

AddInput(channelId, input) ==
    /\ Len(inputs) < Len(DemoInputs) + MaxInputs
    /\ inputs' = AddInputEffect(inputs, channels, channelId, input)[1]
    /\ channels' = AddInputEffect(inputs, channels, channelId, input)[2]
    /\ lastCall' = [op |-> "addInput", channelId |-> channelId,
                    ret |-> NewInput(channelId, input).id]
    /\ UNCHANGED <<now, polls, lastAccepted, coordVars, storeVars>>

GetChannelInputsCall(channelId, limit) ==
    /\ lastCall' = [op |-> "getChannelInputs", channelId |-> channelId, limit |-> limit,
                    ret |-> GetChannelInputs(channels, channelId, limit)]
    /\ UNCHANGED <<now, ledgerVars, polls, lastAccepted, coordVars, storeVars>>

CreatePoll(channelId, pollData) ==
    LET poll == NewPoll(channelId, pollData)
        announcement == [content |-> "Poll: " \o poll.question,
                         author |-> poll.createdBy, type |-> "poll"]
    IN  /\ Len(inputs) < Len(DemoInputs) + MaxInputs
        /\ poll.id \in DOMAIN polls \/ Cardinality(DOMAIN polls) < 1 + MaxPolls
        /\ polls' = [id \in (DOMAIN polls) \cup {poll.id} |->
                        IF id = poll.id THEN poll ELSE polls[id]]
        /\ inputs' = AddInputEffect(inputs, channels, channelId, announcement)[1]
        /\ channels' = AddInputEffect(inputs, channels, channelId, announcement)[2]
        /\ lastAccepted' = [id \in (DOMAIN polls) \cup {poll.id} |->
                               IF id = poll.id THEN [u \in Users |-> NoOption]
                               ELSE lastAccepted[id]]
        /\ lastCall' = [op |-> "createPoll", channelId |-> channelId, pollData |-> pollData,
                        ret |-> poll.id]
        /\ UNCHANGED <<now, coordVars, storeVars>>

\* what lastCall keeps of a voteOnPoll call: which of the failure conditions of
\* the contract its arguments met, whether the user had a vote on the poll, and
\* how the call ended
VoteOnPollCall(pollId, optionIndex, userId, ret, threw) ==
    [ op          |-> "voteOnPoll",
      pollId      |-> pollId,
      optionIndex |-> optionIndex,
      userId      |-> userId,
      hadVote     |-> /\ pollId \in DOMAIN polls
                      /\ \E i \in 1..Len(polls[pollId].options) :
                            IndexOf(polls[pollId].options[i].voters, userId) # 0,
      unknownPoll |-> pollId \notin DOMAIN polls,
      inactive    |-> pollId \in DOMAIN polls /\ ~polls[pollId].active,
      negative    |-> optionIndex < 0,
      tooLarge    |-> pollId \in DOMAIN polls /\ optionIndex >= Len(polls[pollId].options),
      ret         |-> ret,
      threw       |-> threw ]

VoteOnPoll(pollId, optionIndex, userId) ==
    /\ IF VoteOnPollRejects(pollId, optionIndex)
       THEN /\ UNCHANGED <<polls, lastAccepted>>
            /\ lastCall' = VoteOnPollCall(pollId, optionIndex, userId, FALSE, FALSE)
       ELSE /\ polls' = [polls EXCEPT ![pollId].options = MoveVote(@, optionIndex, userId)]
            /\ IF VoteOnPollThrows(pollId, optionIndex)
               THEN /\ UNCHANGED lastAccepted
                    /\ lastCall' = VoteOnPollCall(pollId, optionIndex, userId, FALSE, TRUE)
               ELSE /\ lastAccepted' = [lastAccepted EXCEPT ![pollId][userId] = optionIndex]
                    /\ lastCall' = VoteOnPollCall(pollId, optionIndex, userId, TRUE, FALSE)
    /\ UNCHANGED <<now, ledgerVars, coordVars, storeVars>>

NextPoll ==
    \/ Tick
    \/ \E d \in PollDataArgs : d.duration = 0 /\ CreatePoll("the-keep", d)
    \/ \E id \in (DOMAIN polls) \cup {UnknownPollId}, i \in (0 - 1)..MaxOptionIndex, u \in Users :
          VoteOnPoll(id, i, u)

SpecPoll == Init /\ [][NextPoll]_vars

NextLedger ==
    \/ Tick
    \/ \E c \in ChannelArgs, i \in InputArgs : AddInput(c, i)
    \/ \E d \in PollDataArgs : CreatePoll("sanctuary", d)
    \/ \E c \in ChannelArgs, n \in (0..MaxLimit) \cup {DefaultLimit} : GetChannelInputsCall(c, n)

SpecLedger == Init /\ [][NextLedger]_vars

----------------------------------------------------------------------------
(* CommunityCoordination: calls *)

EventDataArgs ==
    {[title |-> "t", description |-> "d", scheduledFor |-> now + DayMs, organizer |-> "m1",
      duration |-> 0]}
ItemDataArgs ==
    {[title |-> "t", description |-> "d", proposedBy |-> "m1", votingPeriod |-> p,
      consensusThresholdPct |-> t] : <<p, t>> \in {<<HourMs, 0>>, <<DayMs, 50>>}}
UnknownEventId == <<"event", 0 - 1>>
UnknownItemId == <<"consensus", 0 - 1>>

ScheduleEvent(eventData) ==
    /\ Len(events) < 1 + MaxEvents
    /\ events' = Append(events, NewEvent(eventData))
    /\ lastRsvp' = Append(lastRsvp, [m \in Members |-> None])
    /\ lastCall' = [op |-> "scheduleEvent", ret |-> NewEvent(eventData).id]
    /\ UNCHANGED <<now, ledgerVars, polls, lastAccepted, consensusItems, storeVars>>

RsvpToEvent(eventId, memberId, status) ==
    LET e == FindById(events, eventId)
    IN  /\ IF e = 0
           THEN UNCHANGED <<events, lastRsvp>>
           ELSE /\ events' = [events EXCEPT ![e].attendees = RsvpReplace(@, memberId, status)]
                /\ lastRsvp' = [lastRsvp EXCEPT ![e][memberId] = status]
        /\ lastCall' = [op |-> "rsvpToEvent", event |-> e, memberId |-> memberId,
                        known |-> \E i \in 1..Len(events) : events[i].id = eventId,
                        ret |-> e # 0]
        /\ UNCHANGED <<now, ledgerVars, polls, lastAccepted, consensusItems, storeVars>>

CreateConsensusItem(itemData) ==
    /\ Len(consensusItems) < 1 + MaxItems
    /\ consensusItems' = Append(consensusItems, NewConsensusItem(itemData))
    /\ lastCall' = [op |-> "createConsensusItem", ret |-> NewConsensusItem(itemData).id]
    /\ UNCHANGED <<now, ledgerVars, polls, lastAccepted, events, lastRsvp, storeVars>>

\* the guard of voteOnConsensus, on the position find returned (0: not found)
VoteOnConsensusAcceptsClosed(i) == i = 0

VoteOnConsensusRejects(i) == i = 0 \/ consensusItems[i].status # "voting"

VoteOnConsensus(itemId, memberId, vote) ==
    LET i == FindById(consensusItems, itemId)
    IN  /\ IF VoteOnConsensusRejects(i)
           THEN UNCHANGED consensusItems
           ELSE consensusItems' =
                   [consensusItems EXCEPT
                      ![i].votes = CastBallot(@, memberId, vote),
                      ![i].status = CheckConsensus(consensusItems[i],
                                                   CastBallot(consensusItems[i].votes, memberId, vote))]
        /\ lastCall' = [op |-> "voteOnConsensus", item |-> i, memberId |-> memberId,
                        vote |-> vote,
                        known |-> \E k \in 1..Len(consensusItems) :
                                     consensusItems[k].id = itemId,
                        statusBefore |-> IF i = 0 THEN None ELSE consensusItems[i].status,
                        hadBallot |-> /\ i # 0
                                      /\ \E k \in VoteKinds :
                                            FindMember(consensusItems[i].votes[k], memberId) # 0,
                        ret |-> ~VoteOnConsensusRejects(i)]
        /\ UNCHANGED <<now, ledgerVars, polls, lastAccepted, events, lastRsvp, storeVars>>

NextEvent ==
    \/ Tick
    \/ \E d \in EventDataArgs : ScheduleEvent(d)
    \/ \E id \in {events[i].id : i \in 1..Len(events)} \cup {UnknownEventId},
          m \in Members, st \in RsvpStatuses : RsvpToEvent(id, m, st)

SpecEvent == Init /\ [][NextEvent]_vars

NextConsensus ==
    \/ Tick
    \/ \E d \in ItemDataArgs : CreateConsensusItem(d)
    \/ \E id \in {consensusItems[i].id : i \in 1..Len(consensusItems)} \cup {UnknownItemId},
          m \in Members, v \in VoteKinds : VoteOnConsensus(id, m, v)

SpecConsensus == Init /\ [][NextConsensus]_vars

\* the events and the consensus items of the demo data side by side
NextCoord ==
    \/ Tick
    \/ \E id \in {events[i].id : i \in 1..Len(events)} \cup {UnknownEventId},
          m \in Members, st \in RsvpStatuses : RsvpToEvent(id, m, st)
    \/ \E id \in {consensusItems[i].id : i \in 1..Len(consensusItems)} \cup {UnknownItemId},
          m \in Members, v \in VoteKinds : VoteOnConsensus(id, m, v)

SpecCoord == Init /\ [][NextCoord]_vars

----------------------------------------------------------------------------
(* ConsciousnessPersistence and the facade: calls *)

SpiralArgs == {[depth |-> 1]}

\* a record exported by another installation of the app
ForeignExport ==
    Spread(EarlierState, [userId |-> <<"user", 0 - 2 * DayMs>>, currentPhase |-> "memory",
                          exportedAt |-> 0, version |-> "1.0"])

\* payloads handed to importFromSync besides this store's own export: null, {},
\* and objects with or without the consciousness key and the version
SyncPayloads ==
    { NullObject,
      <<>>,
      [timestamp |-> 0, platform |-> "web"],
      [consciousness |-> NullObject, timestamp |-> 0, platform |-> "web"],
      [consciousness |-> [currentPhase |-> "memory"], timestamp |-> 0, platform |-> "web"],
      [consciousness |-> [currentPhase |-> "memory", version |-> "2.0"],
       timestamp |-> 0, platform |-> "web"],
      [consciousness |-> ForeignExport, timestamp |-> 0, platform |-> "web"] }

\* exportForSync
ExportForSyncValue ==
    [consciousness |-> ExportState, timestamp |-> now, platform |-> "ios"]

\* a saveState that merges only once the write has succeeded
SaveStateDeferred(state) ==
    /\ saveCount < MaxSaves
    /\ saveCount' = saveCount + 1
    /\ pendingWrites' = Append(pendingWrites, JsonStringify(Spread(currentState, state)))
    /\ UNCHANGED <<currentState, storage, loadPending, listeners, received, handles>>

\* saveState up to its await: the merge, and the setItem call with the
\* serialized merged record
SaveState(state) ==
    /\ saveCount < MaxSaves
    /\ saveCount' = saveCount + 1
    /\ currentState' = Spread(currentState, state)
    /\ pendingWrites' = Append(pendingWrites, JsonStringify(Spread(currentState, state)))
    /\ UNCHANGED <<storage, loadPending, listeners, received, handles>>

UpdateSpiral(spiralData) ==
    /\ SaveState([spiral |-> Spread(currentState.spiral, spiralData), lastActive |-> now])
    /\ lastCall' = [op |-> "updateSpiral"]
    /\ UNCHANGED <<now, ledgerVars, polls, lastAccepted, coordVars>>

UpdatePhase(newPhase) ==
    /\ SaveState([currentPhase |-> newPhase, lastActive |-> now])
    /\ lastCall' = [op |-> "updatePhase"]
    /\ UNCHANGED <<now, ledgerVars, polls, lastAccepted, coordVars>>

\* updateCommunityParticipation as a step of its own is not needed: its one
\* caller is addCommunityInput
UpdateCommunityParticipation(participationData) ==
    SaveState([community |-> Spread(currentState.community, participationData),
               lastActive |-> now])

AddCommunityInput(channelId, content, author) ==
    /\ Len(inputs) < Len(DemoInputs) + MaxInputs
    /\ inputs' = AddInputEffect(inputs, channels, channelId,
                                [content |-> content, author |-> author])[1]
    /\ channels' = AddInputEffect(inputs, channels, channelId,
                                  [content |-> content, author |-> author])[2]
    /\ UpdateCommunityParticipation(
          [contributionCount |-> currentState.community.contributionCount + 1,
           lastContribution |-> now,
           participationLevel |-> "active"])
    /\ lastCall' = [op |-> "addCommunityInput", channelId |-> channelId,
                    ret |-> NewInput(channelId, [content |-> content, author |-> author]).id]
    /\ UNCHANGED <<now, polls, lastAccepted, coordVars>>

\* an export that hands the record over and starts afresh
ExportForSyncResetting ==
    /\ lastCall' = [op |-> "exportForSync", ret |-> ExportForSyncValue]
    /\ currentState' = GetDefaultState(now)
    /\ UNCHANGED <<now, ledgerVars, polls, lastAccepted, coordVars, storage, loadPending,
                   pendingWrites, listeners, received, handles, saveCount>>

ExportForSync ==
    /\ lastCall' = [op |-> "exportForSync", ret |-> ExportForSyncValue]
    /\ UNCHANGED <<now, ledgerVars, polls, lastAccepted, coordVars, storeVars>>

\* syncData.consciousness throws TypeError when syncData is null or undefined
ImportFromSyncThrows(syncData) == syncData = NullObject

ImportFromSync(syncData) ==
    /\ IF /\ ~ImportFromSyncThrows(syncData)
          /\ ImportFromSyncDelegates(syncData)
          /\ ImportStateAccepts(syncData.consciousness)
       THEN SaveState(syncData.consciousness)
       ELSE UNCHANGED storeVars
    /\ lastCall' = [op |-> "importFromSync",
                    isObject |-> syncData # NullObject,
                    hasConsciousness |-> "consciousness" \in DOMAIN syncData,
                    versionMatches |-> /\ "consciousness" \in DOMAIN syncData
                                       /\ "version" \in DOMAIN syncData.consciousness
                                       /\ syncData.consciousness.version = "1.0",
                    threw |-> ImportFromSyncThrows(syncData),
                    imported |-> IF /\ ~ImportFromSyncThrows(syncData)
                                    /\ ImportFromSyncDelegates(syncData)
                                 THEN syncData.consciousness ELSE NullObject,
                    ret |-> /\ ~ImportFromSyncThrows(syncData)
                            /\ ImportFromSyncDelegates(syncData)
                            /\ ImportStateAccepts(syncData.consciousness)]
    /\ UNCHANGED <<now, ledgerVars, polls, lastAccepted, coordVars>>

Subscribe(listener) ==
    /\ handles[listener] < MaxHandles
    /\ listeners' = listeners \cup {listener}
    /\ handles' = [handles EXCEPT ![listener] = @ + 1]
    /\ lastCall' = [op |-> "subscribe"]
    /\ UNCHANGED <<now, ledgerVars, polls, lastAccepted, coordVars, currentState, storage,
                   loadPending, pendingWrites, received, saveCount>>

\* a handle returned by subscribe is called
Unsubscribe(listener) ==
    /\ handles[listener] > 0
    /\ listeners' = listeners \ {listener}
    /\ handles' = [handles EXCEPT ![listener] = @ - 1]
    /\ lastCall' = [op |-> "unsubscribe"]
    /\ UNCHANGED <<now, ledgerVars, polls, lastAccepted, coordVars, currentState, storage,
                   loadPending, pendingWrites, received, saveCount>>

\* the getItem of loadState settles; the storage serves its calls in the order
\* they were made, so it settles before any setItem does
LoadSettles(ok) ==
    /\ loadPending
    /\ loadPending' = FALSE
    /\ IF ok /\ storage # NoItem
       THEN /\ currentState' = JsonParse(storage)
            /\ received' = NotifyListeners(JsonParse(storage))
       ELSE UNCHANGED <<currentState, received>>
    /\ lastCall' = [op |-> "loadSettles", ok |-> ok]
    /\ UNCHANGED <<now, ledgerVars, polls, lastAccepted, coordVars, storage, pendingWrites,
                   listeners, handles, saveCount>>

\* the oldest pending setItem of saveState settles: fulfilled, the record is
\* stored and saveState goes on to notifyListeners; rejected, it logs a warning
WriteSettles(ok) ==
    /\ ~loadPending
    /\ pendingWrites # <<>>
    /\ pendingWrites' = Tail(pendingWrites)
    /\ IF ok
       THEN /\ storage' = Head(pendingWrites)
            /\ received' = NotifyListeners(currentState)
       ELSE UNCHANGED <<storage, received>>
    /\ lastCall' = [op |-> "writeSettles", ok |-> ok]
    /\ UNCHANGED <<now, ledgerVars, polls, lastAccepted, coordVars, currentState, loadPending,
                   listeners, handles, saveCount>>

NextSync ==
    \/ Tick
    \/ \E sp \in SpiralArgs : UpdateSpiral(sp)
    \/ UpdatePhase("threshold")
    \/ \E c \in ChannelArgs : AddCommunityInput(c, "hi", "u1")
    \/ ExportForSync
    \/ \E d \in SyncPayloads \cup {ExportForSyncValue} : ImportFromSync(d)
    \/ handles["l1"] = 0 /\ Subscribe("l1")
    \/ Unsubscribe("l1")
    \/ \E ok \in BOOLEAN : LoadSettles(ok)
    \/ \E ok \in BOOLEAN : WriteSettles(ok)

\* the facade with the one subscription the context hook makes
SpecSync == InitSystem /\ [][NextSync]_vars

\* the store with a storage whose writes all succeed
NextStore ==
    \/ Tick
    \/ UpdatePhase("threshold")
    \/ \E sp \in SpiralArgs : UpdateSpiral(sp)
    \/ \E c \in ChannelArgs : AddCommunityInput(c, "hi", "u1")
    \/ ImportFromSync([consciousness |-> ForeignExport, timestamp |-> 0, platform |-> "web"])
    \/ handles["l1"] = 0 /\ Subscribe("l1")
    \/ Unsubscribe("l1")
    \/ \E ok \in BOOLEAN : LoadSettles(ok)
    \/ WriteSettles(TRUE)

SpecStore == InitSystem /\ [][NextStore]_vars

\* the store with listeners that subscribe, also repeatedly, and unsubscribe
NextNotify ==
    \/ Tick
    \/ UpdatePhase("threshold")
    \/ \E sp \in SpiralArgs : UpdateSpiral(sp)
    \/ \E l \in Listeners : Subscribe(l)
    \/ \E l \in Listeners : Unsubscribe(l)
    \/ \E ok \in BOOLEAN : LoadSettles(ok)
    \/ \E ok \in BOOLEAN : WriteSettles(ok)

SpecNotify == InitSystem /\ [][NextNotify]_vars

----------------------------------------------------------------------------
(* Properties of voteOnPoll *)

\* the number of places (option, position) where userId stands in the voters lists
VoterPlaces(poll, userId) ==
    Cardinality({<<i, j>> \in (1..Len(poll.options)) \X (1..Cardinality(Users) + 2) :
                    j <= Len(poll.options[i].voters) /\ poll.options[i].voters[j] = userId})

SumOfVotes(poll) == SumSeq([i \in 1..Len(poll.options) |-> poll.options[i].votes])

\* C1: in every reachable state each userId stands in the voters list of at most
\* one option of a poll, and at most once in it
C1_OneVoterPlace ==
    \A id \in DOMAIN polls : \A u \in Users : VoterPlaces(polls[id], u) <= 1

\* a re-vote was accepted on a poll where the other user holds a vote too
C1_Witness ==
    /\ lastCall.op = "voteOnPoll" /\ lastCall.ret /\ lastCall.hadVote
    /\ \E id \in DOMAIN polls : \A u \in Users : VoterPlaces(polls[id], u) = 1

\* C2 as stated: once a call of the only voter of a poll was accepted, the votes of
\* the poll sum to 1 and the one vote is on the option of the last accepted call
C2_SingleVoterSum ==
    \A id \in DOMAIN polls : \A u \in Users :
        ( /\ lastAccepted[id][u] # NoOption
          /\ \A v \in Users \ {u} : lastAccepted[id][v] = NoOption /\ VoterPlaces(polls[id], v) = 0 )
        => /\ SumOfVotes(polls[id]) = 1
           /\ polls[id].options[lastAccepted[id][u] + 1].votes = 1

\* C3 as stated: a call with an unknown poll, an inactive poll or an optionIndex
\* outside 0..options.length-1 returns false and raises nothing
C3_InvalidReturnsFalse ==
    ( /\ lastCall.op = "voteOnPoll"
      /\ lastCall.unknownPoll \/ lastCall.inactive \/ lastCall.negative \/ lastCall.tooLarge )
    => (lastCall.ret = FALSE /\ ~lastCall.threw)

----------------------------------------------------------------------------
(* Properties of addInput and getChannelInputs *)

\* C8: addInput returns the id of an input it appends to the global list; the
\* input is appended to the list of channelId when that is one of the four
\* channels and to no other list; for any other channelId every list is kept and
\* getChannelInputs of it is empty before and after
C8_AddInput ==
    [][ lastCall'.op = "addInput" =>
          LET c == lastCall'.channelId
              new == inputs'[Len(inputs')]
          IN  /\ inputs' = Append(inputs, new)
              /\ new.id = lastCall'.ret /\ new.channelId = c
              /\ \A k \in KnownChannels \ {c} : channels'[k] = channels[k]
              /\ IF c \in {"sanctuary", "tower-of-code", "temple-of-flame", "the-keep"}
                 THEN channels'[c] = Append(channels[c], new)
                 ELSE /\ channels' = channels
                      /\ \A n \in (0..MaxLimit) \cup {DefaultLimit} :
                            /\ GetChannelInputs(channels, c, n) = <<>>
                            /\ GetChannelInputs(channels', c, n) = <<>> ]_vars

\* an input was added with an unknown channelId: it is in no channel's list
C8_Witness ==
    /\ lastCall.op = "addInput" /\ lastCall.channelId = "unknown-channel"
    /\ inputs[Len(inputs)].id = lastCall.ret
    /\ \A k \in KnownChannels : \A j \in 1..Len(channels[k]) : channels[k][j].id # lastCall.ret

\* C9 as stated: for a known channel and a limit >= 0 the call returns the
\* min(limit, length) most recently added inputs of the channel, most recent first
C9_AtMostLimit ==
    ( /\ lastCall.op = "getChannelInputs"
      /\ lastCall.channelId \in KnownChannels
      /\ lastCall.limit >= 0 )
    => LET list == channels[lastCall.channelId]
           n == Min(lastCall.limit, Len(list))
       IN  /\ Len(lastCall.ret) = n
           /\ \A i \in 1..n : lastCall.ret[i] = list[Len(list) + 1 - i]

----------------------------------------------------------------------------
(* Properties of rsvpToEvent *)

\* the attendee records of memberId, in list order
RecordsOf(event, memberId) ==
    LET Mine(a) == a.memberId = memberId IN SelectSeq(event.attendees, Mine)

\* C4: an event holds at most one attendee record per member; once the member
\* has RSVPed it holds exactly one, with the status of the member's last call;
\* an rsvp leaves the records of every other member and event as they were
C4_OneRecord ==
    [][ /\ \A e \in 1..Len(events') : \A m \in Members :
              /\ Len(RecordsOf(events'[e], m)) <= 1
              /\ lastRsvp'[e][m] = None => Len(RecordsOf(events'[e], m)) = 0
              /\ lastRsvp'[e][m] # None =>
                    /\ Len(RecordsOf(events'[e], m)) = 1
                    /\ RecordsOf(events'[e], m)[1].status = lastRsvp'[e][m]
        /\ lastCall'.op = "rsvpToEvent" =>
              \A e \in 1..Len(events) : \A m \in Members :
                  (e # lastCall'.event \/ m # lastCall'.memberId)
                  => RecordsOf(events'[e], m) = RecordsOf(events[e], m) ]_vars

\* a member has replaced an RSVP on an event where the other member has one too
C4_Witness ==
    /\ lastCall.op = "rsvpToEvent" /\ lastCall.ret
    /\ \E e \in 1..Len(events) :
          /\ e = lastCall.event
          /\ Len(events[e].attendees) = 2
          /\ \E a \in 1..2 :
                /\ events[e].attendees[a].memberId = lastCall.memberId
                /\ events[e].attendees[a].status = "declined"
                /\ events[e].attendees[a].rsvpAt > events[e].attendees[3 - a].rsvpAt

----------------------------------------------------------------------------
(* Properties of voteOnConsensus *)

\* the number of ballots of memberId in the three lists
BallotsOf(item, memberId) ==
    Cardinality({<<k, j>> \in VoteKinds \X (1..Cardinality(Members) + 2) :
                    j <= Len(item.votes[k]) /\ item.votes[k][j].memberId = memberId})

\* C5: a member has at most one ballot in the three lists of an item, and after
\* an accepted vote that ballot is in the list the call chose
C5_OneBallot ==
    /\ \A i \in 1..Len(consensusItems) : \A m \in Members : BallotsOf(consensusItems[i], m) <= 1
    /\ (lastCall.op = "voteOnConsensus" /\ lastCall.ret) =>
          /\ BallotsOf(consensusItems[lastCall.item], lastCall.memberId) = 1
          /\ FindMember(consensusItems[lastCall.item].votes[lastCall.vote], lastCall.memberId) # 0

\* a member who had a ballot has voted again, and the item is still open
C5_Witness ==
    /\ lastCall.op = "voteOnConsensus" /\ lastCall.ret /\ lastCall.hadBallot
    /\ consensusItems[lastCall.item].status = "voting"
    /\ TotalVotes(consensusItems[lastCall.item].votes) = 2

\* C6: status only goes from voting to approved or failed; an approved or failed
\* item never changes again, and voteOnConsensus on it returns false
C6_Terminal ==
    [][ /\ \A i \in 1..Len(consensusItems) :
              /\ consensusItems'[i].status # consensusItems[i].status =>
                    /\ consensusItems[i].status = "voting"
                    /\ consensusItems'[i].status \in {"approved", "failed"}
              /\ consensusItems[i].status # "voting" => consensusItems'[i] = consensusItems[i]
        /\ ( /\ lastCall'.op = "voteOnConsensus"
             /\ lastCall'.statusBefore \in {"approved", "failed"} )
           => lastCall'.ret = FALSE ]_vars

\* a vote on a closed item was refused, with an approved and a failed item stored
C6_Witness ==
    /\ lastCall.op = "voteOnConsensus" /\ lastCall.statusBefore = "failed" /\ ~lastCall.ret
    /\ \E i \in 1..Len(consensusItems) : consensusItems[i].status = "approved"
    /\ \E i \in 1..Len(consensusItems) :
          consensusItems[i].status = "failed" /\ TotalVotes(consensusItems[i].votes) > 0

\* C7: after an accepted vote the status is approved if total > 0 and
\* support/total >= threshold, otherwise failed if now is past votingEnds,
\* otherwise voting
C7_Resolution ==
    (lastCall.op = "voteOnConsensus" /\ lastCall.ret) =>
        LET item == consensusItems[lastCall.item]
            support == Len(item.votes.support)
            total == Len(item.votes.support) + Len(item.votes.oppose) + Len(item.votes.abstain)
        IN  item.status =
               IF total > 0 /\ support * 100 >= item.consensusThreshold * total
               THEN "approved"
               ELSE IF now > item.votingEnds THEN "failed" ELSE "voting"

\* a vote cast after votingEnds reached the threshold: the item is approved
C7_Witness ==
    /\ lastCall.op = "voteOnConsensus" /\ lastCall.ret
    /\ now > consensusItems[lastCall.item].votingEnds
    /\ consensusItems[lastCall.item].status = "approved"

----------------------------------------------------------------------------
(* Properties of importFromSync *)

----------------------------------------------------------------------------
(* Properties of exportState / importState *)

\* x is a value of exportState: a whole record with exportedAt and version "1.0"
IsExport(x) ==
    /\ DOMAIN x = DOMAIN GetDefaultState(0) \cup {"exportedAt", "version"}
    /\ x.version = "1.0"

AgreesOnRecord(a, b) ==
    \A k \in {"userId", "currentPhase", "spiral", "community", "preferences"} : a[k] = b[k]

\* C11: importing an export into a fresh store (nothing saved yet, nothing
\* persisted) returns true and leaves getState() agreeing with the exported
\* record on userId, currentPhase, spiral, community and preferences; importing
\* the same export again right after leaves getState() as it is
C11_RoundTrip ==
    [][ (lastCall'.op = "importFromSync" /\ IsExport(lastCall'.imported)) =>
          /\ (saveCount = 0 /\ storage = NoItem) =>
                /\ lastCall'.ret
                /\ AgreesOnRecord(currentState', lastCall'.imported)
          /\ ( /\ lastCall.op = "importFromSync"
               /\ lastCall.ret
               /\ lastCall.imported = lastCall'.imported ) =>
                /\ lastCall'.ret
                /\ currentState' = currentState ]_vars

\* the export of another store was imported twice in a row into a store that
\* was fresh, and the store holds the other store's record
C11_Witness ==
    /\ lastCall.op = "importFromSync"
    /\ lastCall.ret
    /\ lastCall.imported = ForeignExport
    /\ saveCount = 2
    /\ storage = NoItem
    /\ currentState.userId = ForeignExport.userId
    /\ currentState.userId # GetDefaultState(0).userId
    /\ currentState.community.contributionCount = 3

\* C12: exportForSync and importFromSync, accepted or rejected, leave the
\* input list, the channels' inputs, the polls, the events and the consensus
\* items unchanged, and exportForSync leaves the consciousness state unchanged
C12_SyncFrame ==
    [][ /\ lastCall'.op \in {"exportForSync", "importFromSync"} =>
              /\ inputs' = inputs
              /\ channels' = channels
              /\ polls' = polls
              /\ events' = events
              /\ consensusItems' = consensusItems
        /\ lastCall'.op = "exportForSync" => currentState' = currentState ]_vars

\* an export was taken of a store that has been changed, with inputs added
\* to the ledger since construction
C12_Witness ==
    /\ lastCall.op = "exportForSync"
    /\ lastCall.ret.consciousness.currentPhase = "threshold"
    /\ Len(inputs) > Len(DemoInputs)
    /\ saveCount = 2

----------------------------------------------------------------------------
(* Properties of addCommunityInput *)

\* C13: each addCommunityInput call appends exactly one input to the ledger
\* (the one whose id it returns), raises community.contributionCount by one
\* over its value before the call, sets lastContribution to the time of the
\* call and leaves participationLevel at "active", for a known and for an
\* unknown channel, whether or not earlier writes are still pending
C13_AddCommunityInput ==
    [][ lastCall'.op = "addCommunityInput" =>
          /\ Len(inputs') = Len(inputs) + 1
          /\ SubSeq(inputs', 1, Len(inputs)) = inputs
          /\ inputs'[Len(inputs')].id = lastCall'.ret
          /\ inputs'[Len(inputs')].channelId = lastCall'.channelId
          /\ currentState'.community.contributionCount =
                currentState.community.contributionCount + 1
          /\ currentState'.community.lastContribution = now
          /\ currentState'.community.participationLevel = "active" ]_vars

\* two calls were made, the second on an unknown channel, while the write of
\* the first was still pending: the count went from 0 to 2
C13_Witness ==
    /\ lastCall.op = "addCommunityInput"
    /\ lastCall.channelId = "unknown-channel"
    /\ Len(pendingWrites) = 2
    /\ Len(inputs) = Len(DemoInputs) + 2
    /\ currentState.community.contributionCount = 2
    /\ currentState.community.participationLevel = "active"

\* observer < active < contributor
LevelRank(level) ==
    CASE level = "observer" -> 0
      [] level = "active" -> 1
      [] level = "contributor" -> 2

\* C14: no addCommunityInput call lowers community.participationLevel in the
\* order observer < active < contributor
C14_Ratchet ==
    [][ lastCall'.op = "addCommunityInput" =>
          LevelRank(currentState'.community.participationLevel) >=
             LevelRank(currentState.community.participationLevel) ]_vars

----------------------------------------------------------------------------
(* Properties of subscribe / notifyListeners *)

\* the operations that change the consciousness record, accepted
MutatingCall(call) ==
    \/ call.op \in {"updateSpiral", "updatePhase", "addCommunityInput"}
    \/ call.op = "importFromSync" /\ call.ret

\* the steps at which the code runs notifyListeners
NotifyingStep(call, item) ==
    \/ call.op = "writeSettles" /\ call.ok
    \/ call.op = "loadSettles" /\ call.ok /\ item # NoItem

\* C15: every change of the record invokes every subscribed listener exactly
\* once with the new state, also when the storage write of the change fails:
\* when the write of a change settles, fulfilled or rejected, each subscribed
\* listener is invoked once with the state
C15_NotifiedOnce ==
    [][ lastCall'.op = "writeSettles" =>
          \A l \in listeners : received'[l] = Append(received[l], currentState') ]_vars

\* C16: an unsubscribe handle removes only the registration of the subscribe
\* call that returned it: a listener that still holds a registration (it was
\* subscribed twice and unsubscribed once) is invoked by every notification,
\* and a listener with no registration left is never invoked
C16_OneRegistration ==
    [][ \A l \in Listeners :
          /\ (NotifyingStep(lastCall', storage) /\ handles[l] > 0) =>
                received'[l] = Append(received[l], currentState')
          /\ handles[l] = 0 => received'[l] = received[l] ]_vars

\* C17: the listeners are invoked with the new state within the call that
\* changes the record
C17_SynchronousNotify ==
    [][ MutatingCall(lastCall') =>
          \A l \in listeners : received'[l] = Append(received[l], currentState') ]_vars

----------------------------------------------------------------------------
(* Properties of unknown ids in CommunityCoordination *)

\* C18: rsvpToEvent with an eventId that matches no event, and voteOnConsensus
\* with an itemId that matches no item, return false and change no event's
\* attendees and no consensus item's votes or status
C18_UnknownId ==
    [][ (lastCall'.op \in {"rsvpToEvent", "voteOnConsensus"} /\ ~lastCall'.known) =>
          /\ lastCall'.ret = FALSE
          /\ events' = events
          /\ consensusItems' = consensusItems ]_vars

\* an unknown item id was voted on while an event has attendees and an item
\* has ballots
C18_Witness ==
    /\ lastCall.op = "voteOnConsensus"
    /\ ~lastCall.known
    /\ ~lastCall.ret
    /\ \E i \in 1..Len(events) : events[i].attendees # <<>>
    /\ \E i \in 1..Len(consensusItems) : TotalVotes(consensusItems[i].votes) > 0

----------------------------------------------------------------------------
(* Properties of the consciousness record *)

\* C19: the userId returned by getState never changes, whatever operation
\* runs: the startup load settling, an update, addCommunityInput, importFromSync
C19_StableUserId ==
    [][ currentState'.userId = currentState.userId ]_vars

\* C20: every operation that changes the consciousness record (an update,
\* addCommunityInput, an accepted import) leaves lastActive equal to the time
\* of the operation, so that lastActive never decreases
C20_LastActive ==
    [][ MutatingCall(lastCall') =>
          /\ currentState'.lastActive = now
          /\ currentState'.lastActive >= currentState.lastActive ]_vars

----------------------------------------------------------------------------
(* Properties of the input ledger *)

IsPrefix(s, t) == Len(s) <= Len(t) /\ SubSeq(t, 1, Len(s)) = s

\* the inputs of the global list that carry channelId c, in the order of the list
InputsOf(c) == LET In(x) == x.channelId = c IN SelectSeq(inputs, In)

\* C21: the global input list and every channel's list only grow by appending
\* at the end, with no input removed, reordered or changed and no channel added
\* or removed; and every channel's list is the subsequence of the global list
\* made of the inputs whose channelId is that channel
C21_AppendOnly ==
    /\ [](\A c \in DOMAIN channels : channels[c] = InputsOf(c))
    /\ [][ /\ IsPrefix(inputs, inputs')
           /\ DOMAIN channels' = DOMAIN channels
           /\ \A c \in DOMAIN channels : IsPrefix(channels[c], channels'[c]) ]_vars

\* an input went to an unknown channel, and a poll announcement was appended
\* after the inputs of the demo data
C21_Witness ==
    /\ lastCall.op = "createPoll"
    /\ Len(inputs) = Len(DemoInputs) + 2
    /\ \E i \in 1..Len(inputs) : inputs[i].channelId \notin DOMAIN channels
    /\ Len(channels["sanctuary"]) = 2

----------------------------------------------------------------------------
(* Properties of createPoll *)

\* C22: createPoll stores under the id it returns a poll that is active, has
\* one option per given text in the given order, each with votes = 0 and no
\* voters, and ends at the creation time plus the duration (24 hours when no
\* duration is given); and it appends exactly one input, of type poll and
\* authored by the poll's creator, to the global list and to the same channel
C22_CreatePoll ==
    [][ lastCall'.op = "createPoll" =>
          LET poll == polls'[lastCall'.ret]
              data == lastCall'.pollData
              chan == lastCall'.channelId
              last == inputs'[Len(inputs')]
          IN  /\ lastCall'.ret \in DOMAIN polls'
              /\ poll.active
              /\ poll.channelId = chan
              /\ poll.createdBy = data.author
              /\ Len(poll.options) = Len(data.options)
              /\ \A i \in 1..Len(data.options) :
                    /\ poll.options[i].text = data.options[i]
                    /\ poll.options[i].votes = 0
                    /\ poll.options[i].voters = <<>>
              /\ poll.endsAt = now + (IF data.duration = 0 THEN 24 * HourMs ELSE data.duration)
              /\ Len(inputs') = Len(inputs) + 1
              /\ last.type = "poll"
              /\ last.author = data.author
              /\ last.channelId = chan
              /\ channels'[chan] = Append(channels[chan], last)
              /\ \A c \in DOMAIN channels \ {chan} : channels'[c] = channels[c] ]_vars

\* a poll was created without a duration, in a channel that held inputs
C22_Witness ==
    /\ lastCall.op = "createPoll"
    /\ lastCall.pollData.duration = 0
    /\ polls[lastCall.ret].endsAt = now + DayMs
    /\ Len(channels[lastCall.channelId]) >= 2
    /\ now > 0

----------------------------------------------------------------------------
(* Properties of loadState / saveState *)

\* the fields of state that differ from the record the constructor built
ChangedFields(state) ==
    {k \in DOMAIN state :
        k \notin DOMAIN GetDefaultState(0) \/ state[k] # GetDefaultState(0)[k]}

\* C23: when the record was changed after construction and before the startup
\* load settles, the state after the load still has every changed field
C23_LoadKeepsUpdates ==
    [][ (lastCall'.op = "loadSettles" /\ loadPending /\ saveCount > 0) =>
          \A k \in ChangedFields(currentState) :
             k \in DOMAIN currentState' /\ currentState'[k] = currentState[k] ]_vars

\* C24: with writes that all succeed, in the order issued, once the record has
\* been changed and neither the load nor a write is pending, the persisted
\* record is the in-memory state
C24_WriteThrough ==
    (saveCount > 0 /\ ~loadPending /\ pendingWrites = <<>>) =>
        storage = JsonStringify(currentState)

\* C25: when the write of a mutating call is rejected, nothing is raised and
\* getState still returns the record that call merged; when the startup read
\* finds nothing or is rejected, the state is left as it is, which is the
\* defaults (phase seed, observer, contributionCount 0) if nothing changed it
C25_SilentDegradation ==
    [][ /\ (lastCall'.op = "writeSettles" /\ ~lastCall'.ok) =>
              /\ storage' = storage
              /\ Len(pendingWrites) = 1 => currentState' = JsonParse(Head(pendingWrites))
        /\ (lastCall'.op = "loadSettles" /\ (~lastCall'.ok \/ storage = NoItem)) =>
              /\ currentState' = currentState
              /\ saveCount = 0 =>
                    /\ currentState'.currentPhase = "seed"
                    /\ currentState'.community.participationLevel = "observer"
                    /\ currentState'.community.contributionCount = 0 ]_vars

----------------------------------------------------------------------------
(* Properties of the resolution of consensus items *)

\* C26: the status of a consensus item changes only in an accepted
\* voteOnConsensus call on that item; the passage of time and every other
\* operation leave every status, and what getActiveConsensusItems returns,
\* as they are, also for an item whose votingEnds has passed
C26_ReactiveOnly ==
    [][ /\ Len(consensusItems') >= Len(consensusItems)
        /\ \A i \in 1..Len(consensusItems) :
              consensusItems'[i].status # consensusItems[i].status =>
                 /\ lastCall'.op = "voteOnConsensus"
                 /\ lastCall'.ret
                 /\ lastCall'.item = i
        /\ ~(lastCall'.op = "voteOnConsensus" /\ lastCall'.ret) =>
              GetActiveConsensusItems \subseteq GetActiveConsensusItems' ]_vars

\* the voting of an item with ballots ended, other calls were made since, and
\* the item is still voting and still returned by getActiveConsensusItems
C26_Witness ==
    /\ lastCall.op = "createConsensusItem"
    /\ \E i \in GetActiveConsensusItems :
          /\ now > consensusItems[i].votingEnds
          /\ consensusItems[i].status = "voting"
          /\ TotalVotes(consensusItems[i].votes) > 0

----------------------------------------------------------------------------
(* Properties of polls over time *)

\* C27: no operation sets a poll's active flag to false, and a vote with a
\* valid option index on a poll whose endsAt has passed, which getActivePolls
\* no longer returns, returns true and is tallied: the user stands in the
\* voters of the chosen option, whose count went up unless the user's vote
\* was there already
C27_VotableAfterEnd ==
    /\ [](\A id \in DOMAIN polls : polls[id].active)
    /\ [][ ( /\ lastCall'.op = "voteOnPoll"
             /\ lastCall'.pollId \in DOMAIN polls
             /\ polls[lastCall'.pollId].endsAt < now
             /\ lastCall'.optionIndex \in 0..(Len(polls[lastCall'.pollId].options) - 1) ) =>
              LET before == polls[lastCall'.pollId].options[lastCall'.optionIndex + 1]
                  after == polls'[lastCall'.pollId].options[lastCall'.optionIndex + 1]
                  was == IndexOf(before.voters, lastCall'.userId) # 0
              IN  /\ lastCall'.pollId \notin GetActivePolls
                  /\ lastCall'.ret
                  /\ ~lastCall'.threw
                  /\ IndexOf(after.voters, lastCall'.userId) # 0
                  /\ after.votes = before.votes + (IF was THEN 0 ELSE 1) ]_vars

\* a vote was accepted and tallied on a poll that had ended and was not
\* among the active polls
C27_Witness ==
    /\ lastCall.op = "voteOnPoll"
    /\ lastCall.ret
    /\ lastCall.pollId \in DOMAIN polls
    /\ polls[lastCall.pollId].endsAt < now
    /\ lastCall.pollId \notin GetActivePolls
    /\ polls[lastCall.pollId].options[lastCall.optionIndex + 1].votes >= 1
    /\ ~lastCall.hadVote

\* C28: in every reachable state every option of every poll has votes equal
\* to the number of entries of its voters list, and not negative
C28_VotesCountVoters ==
    \A id \in DOMAIN polls :
       \A i \in 1..Len(polls[id].options) :
          /\ polls[id].options[i].votes = Len(polls[id].options[i].voters)
          /\ polls[id].options[i].votes >= 0

\* a call with a negative index removed the caller's vote before it threw,
\* on a poll where another user's vote stands
C28_Witness ==
    /\ lastCall.op = "voteOnPoll"
    /\ lastCall.threw
    /\ lastCall.hadVote
    /\ \E i \in 1..Len(polls[lastCall.pollId].options) :
          polls[lastCall.pollId].options[i].votes = 1

----------------------------------------------------------------------------
(* Properties of the consensus threshold *)

\* C29: in every reachable state an item in status voting has no ballots, or
\* a support ratio below its threshold (thresholds in hundredths):
\* |support| * 100 < consensusThreshold * (|support| + |oppose| + |abstain|)
C29_NoVotingAtThreshold ==
    \A i \in 1..Len(consensusItems) :
       consensusItems[i].status = "voting" =>
          \/ TotalVotes(consensusItems[i].votes) = 0
          \/ Len(consensusItems[i].votes.support) * 100 <
                consensusItems[i].consensusThreshold * TotalVotes(consensusItems[i].votes)

\* a vote brought an item with an opposing ballot to exactly its threshold of
\* one half and the item was approved in that call, while another item is
\* voting with ballots below its threshold
C29_Witness ==
    /\ lastCall.op = "voteOnConsensus"
    /\ lastCall.ret
    /\ lastCall.statusBefore = "voting"
    /\ consensusItems[lastCall.item].status = "approved"
    /\ consensusItems[lastCall.item].consensusThreshold = 50
    /\ Len(consensusItems[lastCall.item].votes.support) = 1
    /\ Len(consensusItems[lastCall.item].votes.oppose) = 1
    /\ \E j \in 1..Len(consensusItems) :
          /\ consensusItems[j].status = "voting"
          /\ TotalVotes(consensusItems[j].votes) > 0

----------------------------------------------------------------------------
(* Properties of the ids of created entities *)

\* C30: every createPoll, scheduleEvent and createConsensusItem call, also at
\* a clock value at which an entity of the kind was created before, adds one
\* entity to those stored, keeps the earlier ones, and returns an id that no
\* earlier entity of the kind has, under which the new entity is found
C30_NeverShadowed ==
    [][ /\ lastCall'.op = "createPoll" =>
              /\ lastCall'.ret \notin DOMAIN polls
              /\ Cardinality(DOMAIN polls') = Cardinality(DOMAIN polls) + 1
              /\ \A id \in DOMAIN polls : id \in DOMAIN polls' /\ polls'[id] = polls[id]
        /\ lastCall'.op = "scheduleEvent" =>
              /\ \A i \in 1..Len(events) : events[i].id # lastCall'.ret
              /\ Len(events') = Len(events) + 1
              /\ FindById(events', lastCall'.ret) = Len(events')
        /\ lastCall'.op = "createConsensusItem" =>
              /\ \A i \in 1..Len(consensusItems) : consensusItems[i].id # lastCall'.ret
              /\ Len(consensusItems') = Len(consensusItems) + 1
              /\ FindById(consensusItems', lastCall'.ret) = Len(consensusItems') ]_vars
====
